---- MODULE Spec2Model ----
(***************************************************************************)
(* UniformGrid1D (fipy/meshes/numMesh/uniformGrid1D.py): the closed-form   *)
(* topology and geometry of a uniform 1D finite-volume mesh.               *)
(*                                                                         *)
(* Numeric arrays are functions over 0..n-1, so indices are the source's.  *)
(* A 2D array of shape (n, 2) is a function over 0..n-1 whose values are   *)
(* functions over 0..1.  A masked (MA) array is a record of a data array   *)
(* and a mask array of the same shape.  Every value of a double ('d')      *)
(* array, and every value computed from dx or origin, is held as an        *)
(* integer count of 1/Unit, so 0.5 and dx / 2. are exact.                  *)
(* A Python call either returns a value or raises: its outcome is a        *)
(* record [exc, val] with exc = "none" on a normal return.                 *)
(***************************************************************************)
EXTENDS Integers, Sequences, FiniteSets, TLC

VARIABLES engines, ret

vars == <<engines, ret>>

\* Bounds of the model.
MaxInstances == 2
MaxNx == 3
MaxDx == 2
MaxCoord == 1

\* Doubles are counted in halves, the finest fraction the code forms
\* (the 0.5 of getCellCenters, the / 2. of _getCellDistances).
Unit == 2

\* Numeric MA's default fill value of an integer array, used by filled().
default_integer_fill_value == 0

\* ------------------------------------------------------------------------
\* Outcomes of a call.

Ok(v) == [exc |-> "none", val |-> v]

Raise(e) == [exc |-> e, val |-> <<>>]

\* ------------------------------------------------------------------------
\* Numeric / MA array primitives, as the code uses them.

Size(a) == Cardinality(DOMAIN a)

\* Python index normalisation: a negative index counts from the end.
Index(n, i) == IF i < 0 THEN i + n ELSE i

InRange(n, i) == Index(n, i) \in 0..(n - 1)

arange(n) == [i \in 0..(n - 1) |-> i]

\* numerix.ones(n, 'd') / numerix.zeros(n, 'd')
ones_d(n) == [i \in 0..(n - 1) |-> Unit]

zeros_d(n) == [i \in 0..(n - 1) |-> 0]

\* numerix.ones((n, 2)): an integer array
ones2(n) == [i \in 0..(n - 1) |-> [j \in 0..1 |-> 1]]

\* numerix.transpose(numerix.array((a, b))): rows (a[i], b[i])
transpose2(a, b) == [i \in DOMAIN a |-> [j \in 0..1 |-> IF j = 0 THEN a[i] ELSE b[i]]]

\* a[..., numerix.NewAxis]: shape (n,) to shape (n, 1)
NewAxis(a) == [i \in DOMAIN a |-> [j \in 0..0 |-> a[i]]]

\* a + c, a * c, a / c with a scalar c, element by element.  dx, origin and
\* the factors are whole numbers, so a product with one needs no rescaling.
Plus(a, c) == [i \in DOMAIN a |-> a[i] + c]

Times(a, c) == [i \in DOMAIN a |-> a[i] * c]

\* the same on a 2D array
Plus2(a, c) == [i \in DOMAIN a |-> Plus(a[i], c)]

Times2(a, c) == [i \in DOMAIN a |-> Times(a[i], c)]

\* An integer array promoted to double (counted in 1/Unit)
Double2(a) == Times2(a, Unit)

\* a[..., j] *= c on a 2D array
ColumnTimes(a, j, c) == [i \in DOMAIN a |-> [a[i] EXCEPT ![j] = a[i][j] * c]]

\* MA.array(a) for a 2D array a: nothing masked
MAarray(a) == [data |-> a, mask |-> [i \in DOMAIN a |-> [j \in DOMAIN a[i] |-> FALSE]]]

\* a[i] = v on a 1D array; IndexError when i is out of range
SetItem1(r, i, v) ==
    IF r.exc # "none" THEN r
    ELSE IF ~InRange(Size(r.val), i) THEN Raise("IndexError")
    ELSE Ok([r.val EXCEPT ![Index(Size(r.val), i)] = v])

\* a[lo:hi] = v on a 1D array: a slice never raises, it is clipped
SetSlice1(r, lo, hi, v) ==
    IF r.exc # "none" THEN r
    ELSE LET n == Size(r.val)
             first == IF Index(n, lo) < 0 THEN 0 ELSE Index(n, lo)
             last == IF Index(n, hi) > n THEN n ELSE Index(n, hi)
         IN  Ok([k \in DOMAIN r.val |-> IF k >= first /\ k < last THEN v ELSE r.val[k]])

\* a[i, j] = v on a 2D array; IndexError when the row i is out of range
SetItem2(r, i, j, v) ==
    IF r.exc # "none" THEN r
    ELSE IF ~InRange(Size(r.val), i) THEN Raise("IndexError")
    ELSE Ok([r.val EXCEPT ![Index(Size(r.val), i)][j] = v])

\* a[i, j] = a[i, k] on a masked 2D array: the value is stored, the slot unmasked
MACopyItem2(r, i, j, k) ==
    IF r.exc # "none" THEN r
    ELSE LET n == Size(r.val.data) IN
         IF ~InRange(n, i) THEN Raise("IndexError")
         ELSE Ok([data |-> [r.val.data EXCEPT ![Index(n, i)][j] = r.val.data[Index(n, i)][k]],
                  mask |-> [r.val.mask EXCEPT ![Index(n, i)][j] = r.val.mask[Index(n, i)][k]]])

\* a[i, j] = MA.masked: the slot is masked, its data kept underneath
MAMaskItem2(r, i, j) ==
    IF r.exc # "none" THEN r
    ELSE LET n == Size(r.val.data) IN
         IF ~InRange(n, i) THEN Raise("IndexError")
         ELSE Ok([r.val EXCEPT !.mask[Index(n, i)][j] = TRUE])

\* a.filled(): the data with every masked slot replaced by the fill value
filled(r) ==
    IF r.exc # "none" THEN r
    ELSE Ok([i \in DOMAIN r.val.data |-> [j \in DOMAIN r.val.data[i] |->
                IF r.val.mask[i][j] THEN default_integer_fill_value ELSE r.val.data[i][j]]])

\* ------------------------------------------------------------------------
\* Construction.

\* Grid1D._calcNumPts: the resolved cell count, or InvalidMeshParameters for
\* a non-positive spacing or a negative count.
_calcNumPts(d, n) ==
    IF d <= 0 \/ n < 0 THEN Raise("InvalidMeshParameters") ELSE Ok(n)

\* __init__ with _calcNumPts left out: the count is stored as given.
__init__unchecked(dx, nx, origin) ==
    Ok([dx |-> dx, origin |-> origin, nx |-> nx,
        numberOfVertices |-> nx + 1, numberOfFaces |-> nx + 1, numberOfCells |-> nx,
        scale |-> [length |-> 1, area |-> 1, volume |-> 1]])

\* UniformGrid1D.__init__: the instance's fields, or the exception that
\* leaves the constructor (then no instance exists).  Units are out of
\* scope: the scale factor is the dimensionless 1.
__init__(dx, nx, origin) ==
    LET n == _calcNumPts(dx, nx) IN
    IF n.exc # "none" THEN n
    ELSE Ok([dx |-> dx, origin |-> origin, nx |-> n.val,
             numberOfVertices |-> n.val + 1, numberOfFaces |-> n.val + 1,
             numberOfCells |-> n.val,
             scale |-> [length |-> 1, area |-> 1, volume |-> 1]])

\* ------------------------------------------------------------------------
\* Topology queries.  self is the instance's record of fields.

getExteriorFaceIDs(self) ==
    Ok([k \in 0..1 |-> IF k = 0 THEN 0 ELSE self.numberOfFaces - 1])

getInteriorFaceIDs(self) == Ok(Plus(arange(self.numberOfFaces - 2), 1))

\* _getCellFaceOrientations without the orientations[0,0] = 1 line.
_getCellFaceOrientations_noflip(self) ==
    Ok(ColumnTimes(ones2(self.numberOfCells), 0, -1))

_getCellFaceOrientations(self) ==
    SetItem2(Ok(ColumnTimes(ones2(self.numberOfCells), 0, -1)), 0, 0, 1)

\* _getCellToCellIDs as its commented-out lines 131-132 have it: the first
\* cell's next slot masked instead of its previous slot.
_getCellToCellIDs_alt(self) ==
    LET ids == Ok(MAarray(transpose2(Plus(arange(self.numberOfCells), -1),
                                     Plus(arange(self.numberOfCells), 1))))
    IN  MAMaskItem2(MAMaskItem2(MACopyItem2(ids, 0, 0, 1), 0, 1), -1, 1)

_getCellToCellIDs(self) ==
    LET ids == Ok(MAarray(transpose2(Plus(arange(self.numberOfCells), -1),
                                     Plus(arange(self.numberOfCells), 1))))
    IN  MAMaskItem2(MAMaskItem2(ids, 0, 0), -1, 1)

_getCellToCellIDsFilled(self) ==
    LET ids == filled(_getCellToCellIDs(self))
    IN  SetItem2(SetItem2(ids, 0, 0, 0), -1, 1, self.numberOfCells - 1)

\* getFaceCellIDs without the ids[-1,1] = MA.masked line.
getFaceCellIDs_lastunmasked(self) ==
    LET ids == Ok(MAarray(transpose2(Plus(arange(self.numberOfFaces), -1),
                                     arange(self.numberOfFaces))))
    IN  MAMaskItem2(MACopyItem2(ids, 0, 0, 1), 0, 1)

getFaceCellIDs(self) ==
    LET ids == Ok(MAarray(transpose2(Plus(arange(self.numberOfFaces), -1),
                                     arange(self.numberOfFaces))))
    IN  MAMaskItem2(MAMaskItem2(MACopyItem2(ids, 0, 0, 1), 0, 1), -1, 1)

\* ------------------------------------------------------------------------
\* Geometry queries.

_getFaceAreas(self) == Ok(ones_d(self.numberOfFaces))

\* a[i] *= c on an array of shape (n, 1)
RowTimes(r, i, c) ==
    IF r.exc # "none" THEN r
    ELSE IF ~InRange(Size(r.val), i) THEN Raise("IndexError")
    ELSE Ok([r.val EXCEPT ![Index(Size(r.val), i)] = Times(r.val[Index(Size(r.val), i)], c)])

_getFaceNormals(self) == RowTimes(Ok(NewAxis(ones_d(self.numberOfFaces))), 0, -1)

getCellVolumes(self) == Ok(Times(ones_d(self.numberOfCells), self.dx))

getCellCenters(self) ==
    Ok(Plus2(Times2(Plus2(Double2(NewAxis(arange(self.numberOfCells))), Unit \div 2), self.dx),
             self.origin * Unit))

\* _getCellDistances with the boundary faces given the full dx.
_getCellDistances_fulldx(self) ==
    LET distances == zeros_d(self.numberOfFaces)
    IN  SetItem1(SetItem1(SetSlice1(Ok(distances), 1, -1, self.dx * Unit),
                          0, self.dx * Unit),
                 -1, self.dx * Unit)

_getCellDistances(self) ==
    LET distances == zeros_d(self.numberOfFaces)
    IN  SetItem1(SetItem1(SetSlice1(Ok(distances), 1, -1, self.dx * Unit),
                          0, (self.dx * Unit) \div 2),
                 -1, (self.dx * Unit) \div 2)

\* The names the module's global scope binds: its imports, its class and
\* its _test function.  A bare name outside it does not resolve.
ModuleGlobals == {"MA", "Grid1D", "PhysicalField", "numerix", "UniformGrid1D", "_test"}

\* _getFaceAspectRatios calls _getCellDistances() as a bare name, not as
\* a method of self: the lookup goes to the module's globals.
_getFaceAspectRatios(self) ==
    IF "_getCellDistances" \notin ModuleGlobals THEN Raise("NameError")
    ELSE LET d == _getCellDistances(self) IN
         IF d.exc # "none" THEN d
         ELSE IF \E i \in DOMAIN d.val : d.val[i] = 0 THEN Raise("ZeroDivisionError")
         ELSE Ok([i \in DOMAIN d.val |-> (Unit * Unit) \div d.val[i]])

\* MA.zeros((n, 2), 'd') with distances[:] = self.dx; nothing is masked.
_getCellToCellDistances(self) ==
    LET distances == [i \in 0..(self.numberOfCells - 1) |-> [j \in 0..1 |-> self.dx * Unit]]
    IN  SetItem2(SetItem2(Ok(distances), 0, 0, (self.dx * Unit) \div 2),
                 -1, 1, (self.dx * Unit) \div 2)

getFaceCenters(self) ==
    Ok(Plus2(Times2(Double2(NewAxis(arange(self.numberOfFaces))), self.dx),
             self.origin * Unit))

getVertexCoords(self) == getFaceCenters(self)

\* ------------------------------------------------------------------------
\* The state: engines is the sequence of instances constructed so far (an
\* instance's identity is its position); ret is the last call: method,
\* receiver (0: none), arguments, the exception it raised ("none": it
\* returned) and the identity of the instance it returned (0: none).  The
\* array a query returned is Result: the queries read the receiver's
\* fields and nothing else.

QueryMethods ==
    {"getExteriorFaceIDs", "getInteriorFaceIDs", "_getCellFaceOrientations",
     "_getCellToCellIDs", "_getCellToCellIDsFilled", "getVertexCoords",
     "getFaceCellIDs", "_getFaceAreas", "_getFaceNormals", "getCellVolumes",
     "getCellCenters", "_getCellDistances", "_getFaceAspectRatios",
     "_getCellToCellDistances", "getFaceCenters"}

\* The method m called on the instance with fields self.
Dispatch(m, self) ==
    CASE m = "getExteriorFaceIDs" -> getExteriorFaceIDs(self)
      [] m = "getInteriorFaceIDs" -> getInteriorFaceIDs(self)
      [] m = "_getCellFaceOrientations" -> _getCellFaceOrientations(self)
      [] m = "_getCellToCellIDs" -> _getCellToCellIDs(self)
      [] m = "_getCellToCellIDsFilled" -> _getCellToCellIDsFilled(self)
      [] m = "getVertexCoords" -> getVertexCoords(self)
      [] m = "getFaceCellIDs" -> getFaceCellIDs(self)
      [] m = "_getFaceAreas" -> _getFaceAreas(self)
      [] m = "_getFaceNormals" -> _getFaceNormals(self)
      [] m = "getCellVolumes" -> getCellVolumes(self)
      [] m = "getCellCenters" -> getCellCenters(self)
      [] m = "_getCellDistances" -> _getCellDistances(self)
      [] m = "_getFaceAspectRatios" -> _getFaceAspectRatios(self)
      [] m = "_getCellToCellDistances" -> _getCellToCellDistances(self)
      [] m = "getFaceCenters" -> getFaceCenters(self)

\* What a caller passes.  A caller builds a mesh with the default spacing 1
\* and origin 0, or with a non-positive spacing, and any count from -1 up;
\* the other spacings and origins come from __mul__ and _translate.
DxInputs == {-1, 0, 1}

NxInputs == -1..MaxNx

OriginInputs == {0}

Vectors == -MaxCoord..MaxCoord

Factors == -1..MaxDx

\* The values the model lets a field take (the cap on growth).
Representable(dx, origin) == dx <= MaxDx /\ origin \in 0..MaxCoord

\* UniformGrid1D(dx, nx, origin) evaluated inside the call op of the
\* instance self (0: the caller's own construction): __init__ runs, and
\* the instance exists only when it returns.
Construct(op, self, args, dx, nx, origin) ==
    LET r == __init__(dx, nx, origin) IN
    IF r.exc = "none"
    THEN /\ Len(engines) < MaxInstances
         /\ engines' = Append(engines, r.val)
         /\ ret' = [op |-> op, self |-> self, args |-> args, exc |-> "none",
                    instance |-> Len(engines) + 1]
    ELSE /\ engines' = engines
         /\ ret' = [op |-> op, self |-> self, args |-> args, exc |-> r.exc, instance |-> 0]

UniformGrid1D(dx, nx, origin) ==
    /\ Representable(dx, origin)
    /\ Construct("UniformGrid1D", 0, <<dx, nx, origin>>, dx, nx, origin)

\* _translate returning the receiver's own spacing, count and origin.
_translate_noshift(self, vector) ==
    /\ Representable(engines[self].dx, engines[self].origin + vector)
    /\ Construct("_translate", self, <<vector>>,
                 engines[self].dx, engines[self].nx, engines[self].origin)

\* _translate shifting the receiver in place and returning it.
_translate_inplace(self, vector) ==
    /\ Representable(engines[self].dx, engines[self].origin + vector)
    /\ engines' = [engines EXCEPT ![self].origin = engines[self].origin + vector]
    /\ ret' = [op |-> "_translate", self |-> self, args |-> <<vector>>, exc |-> "none",
               instance |-> self]

_translate(self, vector) ==
    /\ Representable(engines[self].dx, engines[self].origin + vector)
    /\ Construct("_translate", self, <<vector>>,
                 engines[self].dx, engines[self].nx, engines[self].origin + vector)

__mul__(self, factor) ==
    /\ Representable(engines[self].dx * factor, engines[self].origin * factor)
    /\ Construct("__mul__", self, <<factor>>,
                 engines[self].dx * factor, engines[self].nx, engines[self].origin * factor)

\* Mesh1D(...)._concatenate(other, smallNumber) of the generic mesh: the
\* explicit mesh of both operands, or MeshCompatibilityError for a partner
\* of another dimensionality.  Every instance here is 1D.
Mesh1D_concatenate(vertexCoords, other, smallNumber) ==
    Ok([vertexCoords |-> vertexCoords, other |-> other])

\* The callee Mesh1D is evaluated first: a bare name, looked up in the
\* module's globals.
_concatenate(self, other, smallNumber) ==
    /\ engines' = engines
    /\ LET r == IF "Mesh1D" \notin ModuleGlobals THEN Raise("NameError")
                ELSE Mesh1D_concatenate(getVertexCoords(engines[self]).val, other, smallNumber)
       IN  ret' = [op |-> "_concatenate", self |-> self, args |-> <<other, smallNumber>>,
                   exc |-> r.exc, instance |-> 0]

\* A query method called on an instance: it assigns to no field.
Query(self, m) ==
    /\ engines' = engines
    /\ LET r == Dispatch(m, engines[self])
       IN  ret' = [op |-> m, self |-> self, args |-> <<>>, exc |-> r.exc, instance |-> 0]

Init ==
    /\ engines = <<>>
    /\ ret = [op |-> "none", self |-> 0, args |-> <<>>, exc |-> "none", instance |-> 0]

Next ==
    \/ \E dx \in DxInputs, nx \in NxInputs, origin \in OriginInputs : UniformGrid1D(dx, nx, origin)
    \/ \E self \in DOMAIN engines, vector \in Vectors : _translate(self, vector)
    \/ \E self \in DOMAIN engines, factor \in Factors : __mul__(self, factor)
    \/ \E self \in DOMAIN engines, other \in DOMAIN engines : _concatenate(self, other, 1)
    \/ \E self \in DOMAIN engines, m \in QueryMethods : Query(self, m)

Spec == Init /\ [][Next]_vars

TypeOK ==
    /\ Len(engines) <= MaxInstances
    /\ \A i \in DOMAIN engines :
          /\ engines[i].dx \in 1..MaxDx
          /\ engines[i].nx \in 0..MaxNx
          /\ engines[i].origin \in 0..MaxCoord

\* ------------------------------------------------------------------------
\* Vocabulary of the properties.

Abs(x) == IF x < 0 THEN -x ELSE x

Range(a) == {a[i] : i \in DOMAIN a}

Occurrences(a, x) == Cardinality({i \in DOMAIN a : a[i] = x})

\* The receiver of the last call
Receiver == engines[ret.self]

\* The array the last call returned, a query that returned normally
Result == Dispatch(ret.op, Receiver).val

Returned(op) == ret.op = op /\ ret.exc = "none"

ExactlyOneMasked(ids, f) == ids.mask[f][0] # ids.mask[f][1]

Unmasked(ids, f) == IF ids.mask[f][0] THEN ids.data[f][1] ELSE ids.data[f][0]

\* Face f of ids is an interior face between the cells f-1 and f
InteriorPair(ids, f, nx) ==
    /\ ~ids.mask[f][0] /\ ~ids.mask[f][1]
    /\ ids.data[f][0] = f - 1 /\ ids.data[f][1] = f
    /\ ids.data[f][0] # ids.data[f][1]
    /\ ids.data[f][0] \in 0..(nx - 1) /\ ids.data[f][1] \in 0..(nx - 1)

\* Face f of ids is a boundary face whose one cell is c
BoundarySlot(ids, f, c, nx) ==
    /\ ExactlyOneMasked(ids, f)
    /\ Unmasked(ids, f) = c
    /\ c \in 0..(nx - 1)

FaceCellIDsAsClaimed(ids, nx) ==
    /\ DOMAIN ids.data = 0..nx
    /\ \A f \in 1..(nx - 1) : InteriorPair(ids, f, nx)
    /\ BoundarySlot(ids, 0, 0, nx)
    /\ BoundarySlot(ids, nx, nx - 1, nx)

\* C1 as stated: for every valid mesh, getFaceCellIDs() gives every interior
\* face i the unmasked distinct valid pair (i-1, i) and each boundary face
\* exactly one masked slot, the other holding its existing cell (0 for
\* face 0, nx-1 for face nx).
C1_FaceCellIDs_EveryNx ==
    ret.op = "getFaceCellIDs" =>
        /\ ret.exc = "none"
        /\ FaceCellIDsAsClaimed(Result, Receiver.nx)

\* C1 amended: the statement holds for every mesh with nx >= 1; for nx = 0
\* the single face 0 has slot 1 masked and slot 0 unmasked holding 0,
\* although no cell exists.
C1_FaceCellIDs ==
    ret.op = "getFaceCellIDs" =>
        /\ ret.exc = "none"
        /\ Receiver.nx >= 1 => FaceCellIDsAsClaimed(Result, Receiver.nx)
        /\ Receiver.nx = 0 =>
              /\ DOMAIN Result.data = {0}
              /\ Result.mask[0][1] /\ ~Result.mask[0][0]
              /\ Result.data[0][0] = 0

C1_Witness ==
    /\ Returned("getFaceCellIDs")
    /\ Receiver.nx >= 2
    /\ InteriorPair(Result, 1, Receiver.nx)

\* C2: for every valid nx, getExteriorFaceIDs() is the boundary faces
\* {0, nx}, getInteriorFaceIDs() the range 1..nx-1, the two are disjoint
\* and every face ID 0..nx (numberOfFaces = nx+1) is listed exactly once.
C2_FacePartition ==
    ret.op \in {"getExteriorFaceIDs", "getInteriorFaceIDs"} =>
        LET ext == getExteriorFaceIDs(Receiver).val
            int == getInteriorFaceIDs(Receiver).val
            nx == Receiver.nx
        IN  /\ ret.exc = "none"
            /\ Receiver.numberOfFaces = nx + 1
            /\ Range(ext) = {0, nx}
            /\ Range(int) = 1..(nx - 1)
            /\ Range(ext) \cap Range(int) = {}
            /\ \A f \in 0..nx : Occurrences(ext, f) + Occurrences(int, f) = 1

\* j is an unmasked neighbour of i in the masked adjacency ids
Neighbour(ids, i, j) == \E s \in 0..1 : ~ids.mask[i][s] /\ ids.data[i][s] = j

\* C3: for nx >= 1, _getCellToCellIDs() gives cell i the pair (i-1, i+1),
\* the previous slot masked only for cell 0 and the next slot only for cell
\* nx-1, so the unmasked entries form a path graph; the filled variant
\* equals it on unmasked slots and holds the cell's own ID on masked ones.
C3_CellToCellIDs ==
    /\ (ret.op = "_getCellToCellIDs" /\ Receiver.nx >= 1) =>
          /\ ret.exc = "none"
          /\ DOMAIN Result.data = 0..(Receiver.nx - 1)
          /\ \A i \in 0..(Receiver.nx - 1) :
                /\ Result.data[i][0] = i - 1 /\ Result.data[i][1] = i + 1
                /\ Result.mask[i][0] <=> (i = 0)
                /\ Result.mask[i][1] <=> (i = Receiver.nx - 1)
          /\ \A i, j \in 0..(Receiver.nx - 1) :
                Neighbour(Result, i, j) <=> (Neighbour(Result, j, i) /\ Abs(i - j) = 1)
    /\ (ret.op = "_getCellToCellIDsFilled" /\ Receiver.nx >= 1) =>
          /\ ret.exc = "none"
          /\ LET ids == _getCellToCellIDs(Receiver).val IN
             \A i \in 0..(Receiver.nx - 1), s \in 0..1 :
                Result[i][s] = (IF ids.mask[i][s] THEN i ELSE ids.data[i][s])

C3_Witness ==
    /\ Returned("_getCellToCellIDs")
    /\ Receiver.nx >= 3
    /\ Neighbour(Result, 1, 0) /\ Neighbour(Result, 1, 2)

\* An instance that is fully constructed
FullyValid(e) ==
    /\ e.dx > 0 /\ e.nx >= 0
    /\ e.numberOfVertices = e.nx + 1
    /\ e.numberOfFaces = e.nx + 1
    /\ e.numberOfCells = e.nx

C5_QueriesTotal ==
    ret.op \in QueryMethods => ret.exc = "none"

\* C6: _translate(v) returns an instance whose cell centre i is the
\* receiver's plus v for every cell, with the receiver's dx, nx, cell
\* volumes and face areas.
C6_TranslateShifts ==
    Returned("_translate") =>
        LET t == engines[ret.instance]
            v == ret.args[1]
        IN  /\ t.dx = Receiver.dx /\ t.nx = Receiver.nx
            /\ DOMAIN getCellCenters(t).val = 0..(Receiver.nx - 1)
            /\ \A i \in 0..(Receiver.nx - 1) :
                  getCellCenters(t).val[i][0] = getCellCenters(Receiver).val[i][0] + v * Unit
            /\ getCellVolumes(t) = getCellVolumes(Receiver)
            /\ _getFaceAreas(t) = _getFaceAreas(Receiver)

C6_Witness ==
    /\ Returned("_translate")
    /\ ret.args[1] # 0
    /\ Receiver.nx >= 2
    /\ engines[ret.instance].origin = Receiver.origin + ret.args[1]

\* C7: no call changes an existing instance (dx, nx, origin, counts), each
\* transformation returns an instance that did not exist before, and a
\* query repeated on the instance as the call left it returns the
\* identical outcome.
C7_ReceiverUnchanged ==
    [][/\ \A i \in DOMAIN engines : i \in DOMAIN engines' /\ engines'[i] = engines[i]
       /\ (ret'.op \in {"_translate", "__mul__"} /\ ret'.exc = "none") =>
             ret'.instance \notin DOMAIN engines /\ ret'.instance \in DOMAIN engines'
       /\ ret'.op \in QueryMethods =>
             /\ Dispatch(ret'.op, engines'[ret'.self]).exc = ret'.exc
             /\ Dispatch(ret'.op, engines'[ret'.self]).val
                   = Dispatch(ret'.op, engines[ret'.self]).val]_vars

C7_Witness ==
    /\ Returned("__mul__")
    /\ ret.args[1] > 1
    /\ ret.instance = Len(engines) /\ ret.instance > ret.self
    /\ Receiver.dx * ret.args[1] = engines[ret.instance].dx

\* C8: concatenating an instance with another mesh of the 1D family
\* returns the generic mesh's result; it never fails for such a partner.
C8_ConcatenateSucceeds ==
    ret.op = "_concatenate" => ret.exc = "none"

\* C9: for nx >= 1 and every cell c, orientation times stored face normal
\* is -1 on slot 0 (face c) and +1 on slot 1 (face c+1), cell 0 included.
C9_OutwardOrientation ==
    (ret.op = "_getCellFaceOrientations" /\ Receiver.nx >= 1) =>
        /\ ret.exc = "none"
        /\ _getFaceNormals(Receiver).exc = "none"
        /\ DOMAIN Result = 0..(Receiver.nx - 1)
        /\ \A c \in 0..(Receiver.nx - 1) :
              /\ Result[c][0] * _getFaceNormals(Receiver).val[c][0] = -Unit
              /\ Result[c][1] * _getFaceNormals(Receiver).val[c + 1][0] = Unit

C9_Witness ==
    /\ Returned("_getCellFaceOrientations")
    /\ Receiver.nx >= 2
    /\ Result[0][0] = 1 /\ Result[1][0] = -1

\* Face f lies between two listed cells whose centres are d apart
InteriorDistance(e, f, d) ==
    LET ids == getFaceCellIDs(e).val
        cc == getCellCenters(e).val
    IN  /\ d = e.dx * Unit
        /\ ~ids.mask[f][0] /\ ~ids.mask[f][1]
        /\ ids.data[f][0] \in DOMAIN cc /\ ids.data[f][1] \in DOMAIN cc
        /\ d = Abs(cc[ids.data[f][1]][0] - cc[ids.data[f][0]][0])

\* Face f is d = dx/2 from the centre of the one cell listed for it
BoundaryDistance(e, f, d) ==
    LET ids == getFaceCellIDs(e).val
        cc == getCellCenters(e).val
        fc == getFaceCenters(e).val
    IN  /\ d * 2 = e.dx * Unit
        /\ ExactlyOneMasked(ids, f)
        /\ Unmasked(ids, f) \in DOMAIN cc
        /\ d = Abs(fc[f][0] - cc[Unmasked(ids, f)][0])

DistancesAsClaimed(e, d) ==
    /\ DOMAIN d = 0..e.nx
    /\ \A f \in 1..(e.nx - 1) : InteriorDistance(e, f, d[f])
    /\ BoundaryDistance(e, 0, d[0])
    /\ BoundaryDistance(e, e.nx, d[e.nx])

\* C10 as stated: for every mesh, _getCellDistances() is dx on an interior
\* face, the distance between the centres of the face's two cells, and
\* dx/2 on a boundary face, the distance from the face's centre to the
\* centre of its one cell.
C10_CellDistances_EveryNx ==
    ret.op = "_getCellDistances" =>
        ret.exc = "none" /\ DistancesAsClaimed(Receiver, Result)

\* C10 amended: the statement holds for every mesh with nx >= 1; for
\* nx = 0 the single face gets dx/2 and the mesh reports no cell centre.
C10_CellDistances ==
    ret.op = "_getCellDistances" =>
        /\ ret.exc = "none"
        /\ Receiver.nx >= 1 => DistancesAsClaimed(Receiver, Result)
        /\ Receiver.nx = 0 =>
              /\ DOMAIN Result = {0}
              /\ Result[0] * 2 = Receiver.dx * Unit
              /\ getCellCenters(Receiver).val = <<>>

C10_Witness ==
    /\ Returned("_getCellDistances")
    /\ Receiver.nx >= 2 /\ Receiver.dx >= 2
    /\ InteriorDistance(Receiver, 1, Result[1])

====
